---- MODULE Spec2Model ----
(***************************************************************************)
(* A model of weather_updates.py: a single-shot script that reads two      *)
(* credentials from the process environment, fetches one forecast per      *)
(* location, builds a text report and mails it through one SMTP session.   *)
(*                                                                         *)
(* Python values are encoded as follows.  An optional value is a sequence  *)
(* of length at most one: None is <<>> and a present value v is <<v>>.     *)
(* This covers Python's None, JSON null and "no return value yet".  A      *)
(* string built by concatenation (+=, f-strings) is the sequence of its    *)
(* pieces, so concatenation is \o.  An exception is the name of its class. *)
(***************************************************************************)
EXTENDS Integers, Sequences, FiniteSets, TLC

VARIABLES
    environ,        \* os.environ restricted to the two variables the script reads
    locations,      \* the argument of build_weather_report: the dict's items in order
    sender_email,   \* module global, line 18
    password,       \* module global, line 19
    pc,             \* position of the single thread of control
    idx,            \* position of the for loop of line 120 (1-based)
    report,         \* local `report` of build_weather_report
    response,       \* the HTTP exchange of the get_weather call in progress
    weather_data,   \* local `weather_data` of build_weather_report
    weather_report, \* `weather_report` of the main block, line 164
    requests_log,   \* every GET issued, in order: its latitude/longitude parameters
    results,        \* every value get_weather has returned, in order
    translated,     \* every get_weather_description call: argument and result
    session,        \* the SMTP_SSL session: "none", "open" or "closed"
    smtp,           \* counters of relay operations attempted by send_email
    smtp_exc,       \* the exception raised inside send_email's try block, "" if none
    outbox,         \* messages the relay accepted
    exception,      \* the exception that ended the process, "" if none
    stdout          \* what was printed, one sequence of pieces per print call

vars == <<environ, locations, sender_email, password, pc, idx, report, response,
          weather_data, weather_report, requests_log, results, translated,
          session, smtp, smtp_exc, outbox, exception, stdout>>

(***************************************************************************)
(* Bounds of the model.                                                    *)
(***************************************************************************)
\* longest location list given to build_weather_report
MaxLocations == 2
\* precipitation probabilities range over 0..MaxProb (and null)
MaxProb == 2
\* weather codes given to the translator range over -1..MaxCode
MaxCode == 100
\* calls of the translator in the translator's own specification
MaxCalls == 2

(***************************************************************************)
(* Constants of the program.                                               *)
(***************************************************************************)
None == <<>>
Some(v) == <<v>>

API_BASE_URL == "https://api.open-meteo.com/v1/forecast"
SMTP_SERVER == "smtp.gmail.com"
SMTP_PORT == 465
EMAIL_SUBJECT == "Your Daily Weather Forecast"
EMAIL_GREETING == "Good morning!\n\nHere is your daily weather forecast:\n\n"

recipients == <<"timhockswender@gmail.com", "chrishockswender@gmail.com">>

WMO_CODES ==
    [c \in {0, 1, 2, 3, 45, 48, 51, 53, 55, 56, 57, 61, 63, 65, 66, 67,
            71, 73, 75, 77, 80, 81, 82, 85, 86, 95, 96, 99} |->
        CASE c = 0 -> "Clear sky"
          [] c = 1 -> "Mainly clear"
          [] c = 2 -> "Partly cloudy"
          [] c = 3 -> "Overcast"
          [] c = 45 -> "Fog"
          [] c = 48 -> "Depositing rime fog"
          [] c = 51 -> "Light drizzle"
          [] c = 53 -> "Moderate drizzle"
          [] c = 55 -> "Dense drizzle"
          [] c = 56 -> "Light freezing drizzle"
          [] c = 57 -> "Dense freezing drizzle"
          [] c = 61 -> "Slight rain"
          [] c = 63 -> "Moderate rain"
          [] c = 65 -> "Heavy rain"
          [] c = 66 -> "Light freezing rain"
          [] c = 67 -> "Heavy freezing rain"
          [] c = 71 -> "Slight snow fall"
          [] c = 73 -> "Moderate snow fall"
          [] c = 75 -> "Heavy snow fall"
          [] c = 77 -> "Snow grains"
          [] c = 80 -> "Slight rain showers"
          [] c = 81 -> "Moderate rain showers"
          [] c = 82 -> "Violent rain showers"
          [] c = 85 -> "Slight snow showers"
          [] c = 86 -> "Heavy snow showers"
          [] c = 95 -> "Thunderstorm"
          [] c = 96 -> "Thunderstorm with slight hail"
          [] c = 99 -> "Thunderstorm with heavy hail"]

\* the module's `locations` dict, coordinates in units of 1e-4 degree
default_locations ==
    << [name |-> "Naples, FL", latitude |-> 261420, longitude |-> -817948],
       [name |-> "Davidson, NC", latitude |-> 355024, longitude |-> -808437] >>

(***************************************************************************)
(* Python semantics the script relies on.                                  *)
(***************************************************************************)
\* truth value of an optional string: None and "" are false
TruthyStr(v) == v # None /\ v[1] # ""

\* truth value of get_weather's result: None is false, its six-key dict is true
TruthyDict(v) == v # None

\* the classes an exception is an instance of
Bases(e) ==
    CASE e = "SMTPAuthenticationError" ->
            {"SMTPAuthenticationError", "SMTPException", "OSError", "Exception"}
      [] e = "SMTPException" -> {"SMTPException", "OSError", "Exception"}
      [] e = "OSError" -> {"OSError", "Exception"}
      [] e = "ConnectionError" -> {"ConnectionError", "RequestException", "OSError", "Exception"}
      [] e = "HTTPError" -> {"HTTPError", "RequestException", "OSError", "Exception"}
      [] OTHER -> {e, "Exception"}

\* str() of a value inside an f-string
Fmt(v) == IF v = None THEN "None" ELSE ToString(v[1])

\* the outcome of a call: a returned value or a raised exception
Return(v) == [exc |-> "", value |-> v]
Raise(e) == [exc |-> e, value |-> None]

(***************************************************************************)
(* The weather API as get_weather sees it.  A response is the outcome of   *)
(* requests.get: `error` when the transport raised, else a status and the  *)
(* JSON document of the body.  Bodies are JSON documents: what             *)
(* response.json() raises on any other body depends on the version of      *)
(* requests, which the repository does not pin.  A document keeps the two  *)
(* objects the code reads: current_weather, a function from its keys, and  *)
(* daily, a function from its keys to arrays.                              *)
(***************************************************************************)
DailyKeys == {"temperature_2m_max", "temperature_2m_min", "weathercode",
              "precipitation_sum", "precipitation_probability_max"}

FullBody(code, prob) ==
    [current_weather |-> [k \in {"temperature"} |-> Some(70)],
     daily |-> [k \in DailyKeys |->
        CASE k = "temperature_2m_max" -> <<Some(75), Some(77)>>
          [] k = "temperature_2m_min" -> <<Some(60), Some(58)>>
          [] k = "weathercode" -> <<Some(code), Some(0)>>
          [] k = "precipitation_sum" -> <<Some(5), Some(0)>>
          [] k = "precipitation_probability_max" -> <<prob, Some(0)>>]]

\* the sample of the specification's test: the three temperature fields only
MinimalSampleBody ==
    [current_weather |-> [k \in {"temperature"} |-> Some(70)],
     daily |-> [k \in {"temperature_2m_max", "temperature_2m_min"} |->
        IF k = "temperature_2m_max" THEN <<Some(75)>> ELSE <<Some(60)>>]]

NoCurrentBody ==
    [FullBody(3, Some(0)) EXCEPT !.current_weather = [k \in {} |-> None]]

EmptyDailyBody ==
    [FullBody(3, Some(0)) EXCEPT !.daily = [k \in DailyKeys |-> <<>>]]

\* one code of the table and one outside it
CodeSample == {3, 4}
ProbSample == {None} \cup {Some(p) : p \in 0..MaxProb}

\* documents with every field the code reads; the probability may be null
CompleteBodies == {FullBody(c, p) : c \in CodeSample, p \in ProbSample}

\* documents lacking a key or an array element the code reads
IncompleteBodies == {MinimalSampleBody, NoCurrentBody, EmptyDailyBody}

StatusSample == {200, 304, 404, 503}

Responses ==
    {[error |-> TRUE, status |-> 0, json |-> None]}
        \cup {[error |-> FALSE, status |-> s, json |-> Some(b)] :
                s \in StatusSample, b \in CompleteBodies}
        \cup {[error |-> FALSE, status |-> 200, json |-> Some(b)] :
                b \in IncompleteBodies}

(***************************************************************************)
(* get_weather_description, lines 59-61: dict.get with a default.          *)
(***************************************************************************)
\* a mutant of get_weather_description: the table is looked up with a key
\* that is never an integer, so every code gets the default
get_weather_description_default_only(wmo_code) ==
    "Unknown weather code"

get_weather_description(wmo_code) ==
    IF wmo_code # None /\ wmo_code[1] \in DOMAIN WMO_CODES
    THEN WMO_CODES[wmo_code[1]]
    ELSE "Unknown weather code"

(***************************************************************************)
(* get_weather, lines 69-106.                                              *)
(***************************************************************************)
\* a mutant of raise_for_status: only server errors raise
raise_for_status_5xx_only(status) == 500 <= status /\ status < 600

\* response.raise_for_status(): requests raises HTTPError for 4xx and 5xx
raise_for_status(status) == 400 <= status /\ status < 600

\* data["current_weather"]["temperature"]
CurrentTemperature(data) ==
    IF "temperature" \in DOMAIN data.current_weather
    THEN Return(data.current_weather["temperature"])
    ELSE Raise("KeyError")

\* data["daily"][key][0]
DailyFirst(data, key) ==
    IF key \notin DOMAIN data.daily THEN Raise("KeyError")
    ELSE IF Len(data.daily[key]) = 0 THEN Raise("IndexError")
    ELSE Return(data.daily[key][1])

\* a mutant of extract_forecast: the minimum and maximum arrays are swapped
extract_forecast_swapped(data) ==
    LET fields == << CurrentTemperature(data),
                     DailyFirst(data, "temperature_2m_min"),
                     DailyFirst(data, "temperature_2m_max"),
                     DailyFirst(data, "weathercode"),
                     DailyFirst(data, "precipitation_sum"),
                     DailyFirst(data, "precipitation_probability_max") >>
        failed == {i \in 1..6 : fields[i].exc # ""}
        first == CHOOSE i \in failed : \A j \in failed : i <= j
    IN IF failed # {}
       THEN Raise(fields[first].exc)
       ELSE Return(Some([current_temp |-> fields[1].value,
                         max_temp |-> fields[2].value,
                         min_temp |-> fields[3].value,
                         weather_code |-> fields[4].value,
                         precipitation_sum |-> fields[5].value,
                         precipitation_probability_max |-> fields[6].value]))

\* the dict literal of lines 95-102: its values are evaluated in order and
\* the first failing subscript raises
extract_forecast(data) ==
    LET fields == << CurrentTemperature(data),
                     DailyFirst(data, "temperature_2m_max"),
                     DailyFirst(data, "temperature_2m_min"),
                     DailyFirst(data, "weathercode"),
                     DailyFirst(data, "precipitation_sum"),
                     DailyFirst(data, "precipitation_probability_max") >>
        failed == {i \in 1..6 : fields[i].exc # ""}
        first == CHOOSE i \in failed : \A j \in failed : i <= j
    IN IF failed # {}
       THEN Raise(fields[first].exc)
       ELSE Return(Some([current_temp |-> fields[1].value,
                         max_temp |-> fields[2].value,
                         min_temp |-> fields[3].value,
                         weather_code |-> fields[4].value,
                         precipitation_sum |-> fields[5].value,
                         precipitation_probability_max |-> fields[6].value]))

\* the try block, lines 90-103
get_weather_try(resp) ==
    IF resp.error THEN Raise("ConnectionError")
    ELSE IF raise_for_status(resp.status) THEN Raise("HTTPError")
    ELSE extract_forecast(resp.json[1])

\* the whole function: the except clause of lines 104-106 turns a
\* RequestException into a printed line and None; anything else propagates
get_weather(resp) ==
    LET r == get_weather_try(resp)
    IN IF r.exc # "" /\ "RequestException" \in Bases(r.exc)
       THEN [exc |-> "", value |-> None,
             printed |-> << <<"Could not retrieve weather: ", r.exc>> >>]
       ELSE [exc |-> r.exc, value |-> r.value, printed |-> <<>>]

(***************************************************************************)
(* The body of the loop of build_weather_report, lines 122-134, applied to *)
(* the report so far.  `calls` are the translator calls it made.           *)
(***************************************************************************)
\* a mutant of format_block: the test of line 128 is >= instead of >
format_block_nonnegative(rep, location, data) ==
    IF TruthyDict(data)
    THEN LET d == data[1]
             head == rep \o <<location, ":\n">>
                         \o <<"  Current Temp: ", Fmt(d.current_temp), "°F\n">>
                         \o <<"  High: ", Fmt(d.max_temp), "°F | Low: ",
                               Fmt(d.min_temp), "°F\n">>
             precipitation_prob == d.precipitation_probability_max
             weather_desc == get_weather_description(d.weather_code)
         IN IF precipitation_prob = None
            THEN [exc |-> "TypeError", report |-> head, calls |-> <<>>]
            ELSE IF precipitation_prob[1] >= 0
            THEN [exc |-> "",
                  report |-> head
                      \o <<"  Precipitation: ", weather_desc, " (",
                            Fmt(precipitation_prob), "% chance)\n">>
                      \o <<"  Total Precipitation: ", Fmt(d.precipitation_sum), "mm\n">>
                      \o <<"\n">>,
                  calls |-> << [code |-> d.weather_code, description |-> weather_desc] >>]
            ELSE [exc |-> "", report |-> head \o <<"\n">>, calls |-> <<>>]
    ELSE [exc |-> "",
          report |-> rep \o <<location, ": Could not retrieve weather data.\n\n">>,
          calls |-> <<>>]

format_block(rep, location, data) ==
    IF TruthyDict(data)
    THEN LET d == data[1]
             head == rep \o <<location, ":\n">>
                         \o <<"  Current Temp: ", Fmt(d.current_temp), "°F\n">>
                         \o <<"  High: ", Fmt(d.max_temp), "°F | Low: ",
                               Fmt(d.min_temp), "°F\n">>
             precipitation_prob == d.precipitation_probability_max
             weather_desc == get_weather_description(d.weather_code)
         IN IF precipitation_prob = None
            THEN \* None > 0 raises TypeError at line 128
                 [exc |-> "TypeError", report |-> head, calls |-> <<>>]
            ELSE IF precipitation_prob[1] > 0
            THEN [exc |-> "",
                  report |-> head
                      \o <<"  Precipitation: ", weather_desc, " (",
                            Fmt(precipitation_prob), "% chance)\n">>
                      \o <<"  Total Precipitation: ", Fmt(d.precipitation_sum), "mm\n">>
                      \o <<"\n">>,
                  calls |-> << [code |-> d.weather_code, description |-> weather_desc] >>]
            ELSE [exc |-> "", report |-> head \o <<"\n">>, calls |-> <<>>]
    ELSE [exc |-> "",
          report |-> rep \o <<location, ": Could not retrieve weather data.\n\n">>,
          calls |-> <<>>]

(***************************************************************************)
(* send_email's except clauses, lines 154-160: the message printed for the *)
(* exception that left the with block ("" when none did).  The clauses are *)
(* tried in order and the first whose class matches handles it.            *)
(***************************************************************************)
\* a mutant of send_email_message: the SMTPException clause comes first
send_email_message_generic_first(exc) ==
    IF exc = "" THEN <<"Email sent successfully!">>
    ELSE IF "SMTPException" \in Bases(exc)
    THEN <<"An SMTP error occurred: ", exc>>
    ELSE IF "SMTPAuthenticationError" \in Bases(exc)
    THEN <<"Error: SMTP authentication failed. Check your SENDER_EMAIL and EMAIL_PASSWORD.">>
    ELSE <<"An unexpected error occurred: ", exc>>

send_email_message(exc) ==
    IF exc = "" THEN <<"Email sent successfully!">>
    ELSE IF "SMTPAuthenticationError" \in Bases(exc)
    THEN <<"Error: SMTP authentication failed. Check your SENDER_EMAIL and EMAIL_PASSWORD.">>
    ELSE IF "SMTPException" \in Bases(exc)
    THEN <<"An SMTP error occurred: ", exc>>
    ELSE <<"An unexpected error occurred: ", exc>>

\* the MIME message of lines 143-148
build_message(email_body) ==
    [From |-> sender_email[1],
     To |-> <<recipients[1], ", ", recipients[2]>>,
     Subject |-> EMAIL_SUBJECT,
     body |-> email_body]

(***************************************************************************)
(* Inputs.                                                                 *)
(***************************************************************************)
\* a variable of the environment is absent, empty or set
EnvValues == {None, Some(""), Some("sender@example.com")}

Environments == [{"SENDER_EMAIL", "EMAIL_PASSWORD"} -> EnvValues]

\* os.environ.get(name)
environ_get(name) == environ[name]

\* the two locations of the script and a third, so that lists differ in
\* content and order
LocationPool ==
    {default_locations[i] : i \in DOMAIN default_locations}
        \cup {[name |-> "Anchorage, AK", latitude |-> 612181, longitude |-> -1499003]}

\* a dict's keys are unique: a location list names no location twice
LocationLists ==
    {l \in UNION {[1..n -> LocationPool] : n \in 0..MaxLocations} :
        \A i, j \in DOMAIN l : l[i].name = l[j].name => i = j}

\* what the relay can do to each operation of the session
ConnectOutcomes == {"ok", "SMTPException", "OSError"}
LoginOutcomes == {"ok", "SMTPAuthenticationError", "SMTPException", "OSError"}
SendmailOutcomes == {"ok", "SMTPException", "OSError"}

(***************************************************************************)
(* The script.                                                             *)
(***************************************************************************)
Init ==
    /\ environ \in Environments
    /\ locations \in LocationLists
    /\ sender_email = None
    /\ password = None
    /\ pc = "startup"
    /\ idx = 0
    /\ report = <<>>
    /\ response = None
    /\ weather_data = None
    /\ weather_report = None
    /\ requests_log = <<>>
    /\ results = <<>>
    /\ translated = <<>>
    /\ session = "none"
    /\ smtp = [connect |-> 0, opened |-> 0, login |-> 0, sendmail |-> 0, closed |-> 0]
    /\ smtp_exc = ""
    /\ outbox = <<>>
    /\ exception = ""
    /\ stdout = <<>>

\* a mutant of credentials_missing: `and` instead of `or`
credentials_missing_both(sender, pass) == ~TruthyStr(sender) /\ ~TruthyStr(pass)

\* the condition of line 21
credentials_missing(sender, pass) == ~TruthyStr(sender) \/ ~TruthyStr(pass)

\* lines 18-22: read the credentials, raise ValueError when one is missing
Startup ==
    /\ pc = "startup"
    /\ sender_email' = environ_get("SENDER_EMAIL")
    /\ password' = environ_get("EMAIL_PASSWORD")
    /\ IF credentials_missing(environ_get("SENDER_EMAIL"), environ_get("EMAIL_PASSWORD"))
       THEN pc' = "raised" /\ exception' = "ValueError"
       ELSE pc' = "main" /\ exception' = ""
    /\ UNCHANGED <<environ, locations, idx, report, response, weather_data,
                   weather_report, requests_log, results, translated, session,
                   smtp, smtp_exc, outbox, stdout>>

\* a mutant of initial_report: the report starts empty
initial_report_empty == <<>>

\* line 119: the report starts as the greeting
initial_report == <<EMAIL_GREETING>>

\* line 164 calls build_weather_report, which runs line 119
BuildStart ==
    /\ pc = "main"
    /\ report' = initial_report
    /\ idx' = 1
    /\ pc' = "loop"
    /\ UNCHANGED <<environ, locations, sender_email, password, response,
                   weather_data, weather_report, requests_log, results,
                   translated, session, smtp, smtp_exc, outbox, exception, stdout>>

\* line 121: one get_weather call for the next location, against any response
GetWeather ==
    /\ pc = "loop"
    /\ idx <= Len(locations)
    /\ \E resp \in Responses :
        LET r == get_weather(resp)
        IN /\ response' = Some(resp)
           /\ requests_log' = Append(requests_log,
                    [url |-> API_BASE_URL,
                     latitude |-> locations[idx].latitude,
                     longitude |-> locations[idx].longitude])
           /\ stdout' = stdout \o r.printed
           /\ IF r.exc # ""
              THEN /\ pc' = "raised"
                   /\ exception' = r.exc
                   /\ UNCHANGED <<weather_data, results>>
              ELSE /\ pc' = "format"
                   /\ weather_data' = r.value
                   /\ results' = Append(results, r.value)
                   /\ UNCHANGED exception
    /\ UNCHANGED <<environ, locations, sender_email, password, idx, report,
                   weather_report, translated, session, smtp, smtp_exc, outbox>>

\* lines 122-134: append the location's block or its placeholder line
FormatBlock ==
    /\ pc = "format"
    /\ LET b == format_block(report, locations[idx].name, weather_data)
       IN /\ report' = b.report
          /\ translated' = translated \o b.calls
          /\ IF b.exc # ""
             THEN pc' = "raised" /\ exception' = b.exc /\ UNCHANGED idx
             ELSE pc' = "loop" /\ idx' = idx + 1 /\ UNCHANGED exception
    /\ response' = None
    /\ UNCHANGED <<environ, locations, sender_email, password, weather_data,
                   weather_report, requests_log, results, session, smtp,
                   smtp_exc, outbox, stdout>>

\* line 135 and the assignment of line 164
BuildReturn ==
    /\ pc = "loop"
    /\ idx > Len(locations)
    /\ weather_report' = Some(report)
    /\ pc' = "send_email"
    /\ UNCHANGED <<environ, locations, sender_email, password, idx, report,
                   response, weather_data, requests_log, results, translated,
                   session, smtp, smtp_exc, outbox, exception, stdout>>

\* lines 143-151: build the message and open the session; SMTP_SSL either
\* returns a connected session or raises
SmtpConnect ==
    /\ pc = "send_email"
    /\ \E o \in ConnectOutcomes :
        IF o = "ok"
        THEN /\ session' = "open"
             /\ smtp' = [smtp EXCEPT !.connect = @ + 1, !.opened = @ + 1]
             /\ pc' = "login"
             /\ UNCHANGED smtp_exc
        ELSE /\ smtp' = [smtp EXCEPT !.connect = @ + 1]
             /\ smtp_exc' = o
             /\ pc' = "send_email_except"
             /\ UNCHANGED session
    /\ UNCHANGED <<environ, locations, sender_email, password, idx, report,
                   response, weather_data, weather_report, requests_log, results,
                   translated, outbox, exception, stdout>>

\* line 152
SmtpLogin ==
    /\ pc = "login"
    /\ smtp' = [smtp EXCEPT !.login = @ + 1]
    /\ \E o \in LoginOutcomes :
        IF o = "ok"
        THEN pc' = "sendmail" /\ UNCHANGED smtp_exc
        ELSE pc' = "with_exit" /\ smtp_exc' = o
    /\ UNCHANGED <<environ, locations, sender_email, password, idx, report,
                   response, weather_data, weather_report, requests_log, results,
                   translated, session, outbox, exception, stdout>>

\* line 153
SmtpSendmail ==
    /\ pc = "sendmail"
    /\ smtp' = [smtp EXCEPT !.sendmail = @ + 1]
    /\ \E o \in SendmailOutcomes :
        IF o = "ok"
        THEN /\ outbox' = Append(outbox,
                    [host |-> SMTP_SERVER, port |-> SMTP_PORT,
                     from_addr |-> sender_email[1], to_addrs |-> recipients,
                     msg |-> build_message(weather_report[1])])
             /\ UNCHANGED smtp_exc
        ELSE /\ smtp_exc' = o
             /\ UNCHANGED outbox
    /\ pc' = "with_exit"
    /\ UNCHANGED <<environ, locations, sender_email, password, idx, report,
                   response, weather_data, weather_report, requests_log, results,
                   translated, session, exception, stdout>>

\* a mutant of SmtpExit: the session is closed only when the block ended
\* normally, as with a close() placed after sendmail instead of a with statement
SmtpExit_leaks_on_error ==
    /\ pc = "with_exit"
    /\ IF smtp_exc = ""
       THEN session' = "closed" /\ smtp' = [smtp EXCEPT !.closed = @ + 1]
       ELSE UNCHANGED <<session, smtp>>
    /\ pc' = IF smtp_exc = "" THEN "send_email_else" ELSE "send_email_except"
    /\ UNCHANGED <<environ, locations, sender_email, password, idx, report,
                   response, weather_data, weather_report, requests_log, results,
                   translated, smtp_exc, outbox, exception, stdout>>

\* the end of the with statement of line 151: the session is closed whether
\* the block ended normally or by an exception, and the exception of the
\* block, if any, goes on to the except clauses (closing is taken not to
\* raise an exception of its own)
SmtpExit ==
    /\ pc = "with_exit"
    /\ session' = "closed"
    /\ smtp' = [smtp EXCEPT !.closed = @ + 1]
    /\ pc' = IF smtp_exc = "" THEN "send_email_else" ELSE "send_email_except"
    /\ UNCHANGED <<environ, locations, sender_email, password, idx, report,
                   response, weather_data, weather_report, requests_log, results,
                   translated, smtp_exc, outbox, exception, stdout>>

\* lines 154-160: print the outcome; send_email returns and the script ends
SendEmailReturn ==
    /\ pc \in {"send_email_else", "send_email_except"}
    /\ stdout' = Append(stdout, send_email_message(smtp_exc))
    /\ pc' = "done"
    /\ UNCHANGED <<environ, locations, sender_email, password, idx, report,
                   response, weather_data, weather_report, requests_log, results,
                   translated, session, smtp, smtp_exc, outbox, exception>>

Next ==
    \/ Startup
    \/ BuildStart
    \/ GetWeather
    \/ FormatBlock
    \/ BuildReturn
    \/ SmtpConnect
    \/ SmtpLogin
    \/ SmtpSendmail
    \/ SmtpExit
    \/ SendEmailReturn

Spec == Init /\ [][Next]_vars

(***************************************************************************)
(* The translator on its own: get_weather_description applied to every     *)
(* integer of -1..MaxCode, up to MaxCalls times, with the rest of the      *)
(* program at rest.                                                        *)
(***************************************************************************)
CodeRange == -1..MaxCode

InitTranslator ==
    /\ environ = [n \in {"SENDER_EMAIL", "EMAIL_PASSWORD"} |-> Some("sender@example.com")]
    /\ locations = default_locations
    /\ sender_email = Some("sender@example.com")
    /\ password = Some("sender@example.com")
    /\ pc = "translator"
    /\ idx = 0
    /\ report = <<>>
    /\ response = None
    /\ weather_data = None
    /\ weather_report = None
    /\ requests_log = <<>>
    /\ results = <<>>
    /\ translated = <<>>
    /\ session = "none"
    /\ smtp = [connect |-> 0, opened |-> 0, login |-> 0, sendmail |-> 0, closed |-> 0]
    /\ smtp_exc = ""
    /\ outbox = <<>>
    /\ exception = ""
    /\ stdout = <<>>

\* one call of get_weather_description, line 61
Translate ==
    /\ pc = "translator"
    /\ Len(translated) < MaxCalls
    /\ \E c \in CodeRange :
        translated' = Append(translated,
            [code |-> Some(c), description |-> get_weather_description(Some(c))])
    /\ UNCHANGED <<environ, locations, sender_email, password, pc, idx, report,
                   response, weather_data, weather_report, requests_log, results,
                   session, smtp, smtp_exc, outbox, exception, stdout>>

NextTranslator == Translate

SpecTranslator == InitTranslator /\ [][NextTranslator]_vars

(***************************************************************************)
(* Vocabulary of the properties.                                           *)
(***************************************************************************)
\* how many pieces of a text equal a given piece
Count(text, piece) == Cardinality({i \in DOMAIN text : text[i] = piece})

\* the piece that only a placeholder line carries
PlaceholderPiece == ": Could not retrieve weather data.\n\n"
\* the piece that only a populated block's header carries
HeaderPiece == ":\n"

\* the credential check passed: both globals hold a non-empty string
StartupPassed ==
    /\ pc # "startup"
    /\ sender_email # None /\ sender_email # Some("")
    /\ password # None /\ password # Some("")

\* every get_weather call made so far returned to build_weather_report
AllFetchesReturned == Len(results) = Len(requests_log)

\* one GET per location of the list, in list order, with its coordinates
AllCoordinates ==
    [i \in DOMAIN locations |->
        [url |-> "https://api.open-meteo.com/v1/forecast",
         latitude |-> locations[i].latitude,
         longitude |-> locations[i].longitude]]

\* the response in hand is successful and carries the three sample values
HasSampleValues ==
    /\ response # None
    /\ ~response[1].error
    /\ response[1].status \in 200..299
    /\ response[1].json # None
    /\ LET data == response[1].json[1]
       IN /\ "temperature" \in DOMAIN data.current_weather
          /\ data.current_weather["temperature"] = Some(70)
          /\ "temperature_2m_max" \in DOMAIN data.daily
          /\ Len(data.daily["temperature_2m_max"]) >= 1
          /\ data.daily["temperature_2m_max"][1] = Some(75)
          /\ "temperature_2m_min" \in DOMAIN data.daily
          /\ Len(data.daily["temperature_2m_min"]) >= 1
          /\ data.daily["temperature_2m_min"][1] = Some(60)

\* the response in hand also carries the three other daily arrays, non-empty
HasOtherDailyFields ==
    /\ response # None
    /\ response[1].json # None
    /\ \A k \in {"weathercode", "precipitation_sum", "precipitation_probability_max"} :
        /\ k \in DOMAIN response[1].json[1].daily
        /\ Len(response[1].json[1].daily[k]) >= 1

\* the values of get_weather's result, in the order of its keys
ResultValues ==
    <<weather_data[1].current_temp, weather_data[1].max_temp,
      weather_data[1].min_temp, weather_data[1].weather_code,
      weather_data[1].precipitation_sum,
      weather_data[1].precipitation_probability_max>>

\* get_weather returned a forecast whose three temperatures are 70, 75, 60
ReturnedSampleTemperatures ==
    /\ pc = "format"
    /\ weather_data # None
    /\ <<weather_data[1].current_temp, weather_data[1].max_temp, weather_data[1].min_temp>>
            = <<Some(70), Some(75), Some(60)>>

(***************************************************************************)
(* Properties.                                                             *)
(***************************************************************************)

\* C1: whatever locations fail (get_weather returns None), build_weather_report
\* never aborts once get_weather has returned, fetches every location once in
\* list order, and returns a report with exactly one placeholder line per
\* failed location and exactly one populated block per successful location.
C1_PartialReportNeverAborts ==
    /\ (Len(requests_log) >= 1 /\ AllFetchesReturned) => pc # "raised"
    /\ weather_report # None =>
        /\ requests_log = AllCoordinates
        /\ Len(results) = Len(locations)
        /\ Count(weather_report[1], PlaceholderPiece)
                = Cardinality({i \in DOMAIN results : results[i] = None})
        /\ Count(weather_report[1], HeaderPiece)
                = Cardinality({i \in DOMAIN results : results[i] # None})

\* What the code does keep of the above: a report that is returned was built
\* from one GET per location, in order, and has one placeholder line per
\* None and one header per forecast.
ReturnedReportMatchesResults ==
    weather_report # None =>
        /\ requests_log = AllCoordinates
        /\ Len(results) = Len(locations)
        /\ Count(weather_report[1], PlaceholderPiece)
                = Cardinality({i \in DOMAIN results : results[i] = None})
        /\ Count(weather_report[1], HeaderPiece)
                = Cardinality({i \in DOMAIN results : results[i] # None})

\* C2 as stated: on a transport failure or any status outside 2xx, get_weather
\* returns None and raises nothing.
C2_NonSuccessStatusReturnsNone ==
    (response # None /\ (response[1].error \/ response[1].status \notin 200..299))
        => (pc = "format" /\ weather_data = None /\ exception = "")

\* C2 as amended: on a transport failure or a 4xx/5xx status, get_weather
\* returns None and raises nothing.
C2_FailureReturnsNone ==
    (response # None /\ (response[1].error \/ response[1].status \in 400..599))
        => (pc = "format" /\ weather_data = None /\ exception = "")

\* C2 witness: get_weather has just returned None for a 4xx/5xx response.
C2_Witness ==
    /\ pc = "format"
    /\ response # None
    /\ ~response[1].error
    /\ response[1].status \in 400..599
    /\ response[1].json # None
    /\ weather_data = None

\* C3: a run that passed the credential check never ends by an uncaught
\* exception, and when it ends send_email has been attempted.
C3_CompletesAfterSend ==
    StartupPassed =>
        /\ pc # "raised"
        /\ pc = "done" => smtp.connect >= 1

C5_OneSessionAlwaysClosed ==
    /\ smtp.connect <= 1
    /\ smtp.opened <= 1
    /\ smtp.login <= 1
    /\ smtp.sendmail <= 1
    /\ pc = "done" => (session # "open" /\ smtp.closed = smtp.opened)

\* C5 witness: send_email has returned after a failure inside an open session.
C5_Witness ==
    /\ pc = "done"
    /\ smtp.opened = 1
    /\ smtp_exc # ""
    /\ session = "closed"

\* C6: with SENDER_EMAIL or EMAIL_PASSWORD absent or empty the process ends
\* at startup by ValueError, before any GET and before any connection to the
\* relay; with both set, startup does not fail.
C6_MissingCredentialsFatal ==
    pc # "startup" =>
        IF \E n \in DOMAIN environ : environ[n] = None \/ environ[n] = Some("")
        THEN /\ pc = "raised"
             /\ exception = "ValueError"
             /\ requests_log = <<>>
             /\ smtp.connect = 0
             /\ session = "none"
        ELSE ~(pc = "raised" /\ idx = 0)

\* C6 witness: startup has failed with one variable set and the other empty.
C6_Witness ==
    /\ pc = "raised"
    /\ environ["SENDER_EMAIL"] = Some("sender@example.com")
    /\ environ["EMAIL_PASSWORD"] = Some("")

\* C7: get_weather_description returns the table's string for every code of
\* WMO_CODES and "Unknown weather code" for every other integer; equal
\* arguments give equal results and a call changes nothing else.
C7_TranslatorLookup ==
    /\ \A i \in DOMAIN translated :
        LET c == translated[i].code[1]
            d == translated[i].description
        IN /\ c \in DOMAIN WMO_CODES => d = WMO_CODES[c]
           /\ c \notin DOMAIN WMO_CODES => d = "Unknown weather code"
           /\ c = 0 => d = "Clear sky"
           /\ c = 99 => d = "Thunderstorm with heavy hail"
           /\ c \in {-1, 4, 100} => d = "Unknown weather code"
    /\ \A i, j \in DOMAIN translated :
        translated[i].code = translated[j].code
            => translated[i].description = translated[j].description
    /\ pc = "translator" =>
        /\ stdout = <<>> /\ report = <<>> /\ requests_log = <<>>
        /\ exception = "" /\ session = "none"

\* C7 witness: the translator was called with a code of the table and with an
\* integer outside it.
C7_Witness ==
    /\ pc = "translator"
    /\ \E i, j \in DOMAIN translated :
        /\ translated[i].code[1] \in DOMAIN WMO_CODES
        /\ translated[j].code[1] \notin DOMAIN WMO_CODES

\* C8: over an empty location list build_weather_report issues no GET and
\* returns the greeting alone.
C8_EmptyListGreetingOnly ==
    locations = <<>> =>
        /\ requests_log = <<>>
        /\ weather_report # None => weather_report = Some(<<EMAIL_GREETING>>)

\* C8 witness: build_weather_report has returned for the empty list.
C8_Witness ==
    /\ locations = <<>>
    /\ weather_report # None

C10_PrecipitationLinesIffPositive ==
    [][ (/\ pc = "format"
         /\ weather_data # None
         /\ weather_data[1].precipitation_probability_max # None)
        =>
        LET d == weather_data[1]
            p == d.precipitation_probability_max[1]
            added == SubSeq(report', Len(report) + 1, Len(report'))
        IN /\ SubSeq(report', 1, Len(report)) = report
           /\ Len(added) >= 2
           /\ SubSeq(added, 1, 2) = <<locations[idx].name, ":\n">>
           /\ Count(added, "  Current Temp: ") = 1
           /\ Count(added, "  High: ") = 1
           /\ Count(added, "°F | Low: ") = 1
           /\ Count(added, "  Precipitation: ") = (IF p > 0 THEN 1 ELSE 0)
           /\ Count(added, "  Total Precipitation: ") = (IF p > 0 THEN 1 ELSE 0)
           /\ Len(translated') = Len(translated) + (IF p > 0 THEN 1 ELSE 0)
           /\ p > 0 =>
                /\ translated'[Len(translated')].code = d.weather_code
                /\ Count(added, translated'[Len(translated')].description) = 1
                /\ Count(added, ToString(p)) >= 1
           /\ p = 0 =>
                \A c \in CodeSample \cup CodeRange :
                    format_block(report, locations[idx].name,
                        Some([d EXCEPT !.weather_code = Some(c)])).report = report'
           /\ pc' = "loop"
      ]_vars

\* C10 witness: two blocks were appended, the first for p = 0 and the second
\* for p > 0, and the report has one pair of precipitation lines.
C10_Witness ==
    /\ pc = "loop"
    /\ Len(results) = 2
    /\ results[1] # None
    /\ results[1][1].precipitation_probability_max = Some(0)
    /\ results[2] # None
    /\ results[2][1].precipitation_probability_max # None
    /\ results[2][1].precipitation_probability_max[1] > 0
    /\ Count(report, "  Precipitation: ") = 1
    /\ Len(translated) = 1

====
